---- MODULE Spec2Model ----
(***************************************************************************)
(* Model of cplane_np.py: the class ComplexPlaneNP (a 21 x 21 sampling of  *)
(* the complex plane, every cell holding f(x + y*1j)) and the closure      *)
(* factory julia(c, max).                                                  *)
(*                                                                         *)
(* Numbers.  The grid only ever combines its bounds by subtraction, one    *)
(* division by (len - 1) and multiplication by an index, so with integer   *)
(* bounds every quantity is a multiple of 1/Unit, Unit = (xlen-1)(ylen-1). *)
(* A Python number r is stored as the integer r * Unit and the arithmetic  *)
(* is exact.  julia.f is modelled on Gaussian integers, where Python's     *)
(* complex arithmetic is exact as well.                                    *)
(***************************************************************************)
EXTENDS Integers, Sequences, FiniteSets, TLC

\* self.xlen = 21 and self.ylen = 21, the fixed resolution set by __init__
XLen == 21
YLen == 21

Unit == (XLen - 1) * (YLen - 1)

-----------------------------------------------------------------------------
(* Python values that reach the grid's bounds: numbers, and the string     *)
(* "one" that test_zoom2 passes to zoom.                                   *)

Num(k) == [kind |-> "num", v |-> k * Unit]
StrOne == [kind |-> "str", v |-> 1]

IsNum(x) == x.kind = "num"

\* the values each bound is drawn from, in __init__ and in zoom: the default
\* bounds -5 and 5, one more number for xmax and for ymin, and the str
XminArgs == {Num(-5), StrOne}
XmaxArgs == {Num(5), Num(10), StrOne}
YminArgs == {Num(-5), Num(0), StrOne}
YmaxArgs == {Num(5), StrOne}

\* a - b on Python values; TypeError when an operand is a str
CanSub(a, b) == IsNum(a) /\ IsNum(b)
Sub(a, b) == [kind |-> "num", v |-> a.v - b.v]

\* a / n for a number a and the int n = len - 1
Div(a, n) == [kind |-> "num", v |-> a.v \div n]

\* complex values, both parts in units of 1/Unit
Cx(re, im) == [re |-> re, im |-> im]

-----------------------------------------------------------------------------
(* Transformations.  "identity" is the default f = lambda x: x, "f2x" the  *)
(* test helper f2x; "int42" is a value that is not callable.               *)

Callables == {"identity", "f2x"}
FArgs == Callables \cup {"int42"}

Callable(f) == f \in Callables

f2x(x) == Cx(2 * x.re, 2 * x.im)

\* self.f(z)
Apply(f, z) == IF f = "f2x" THEN f2x(z) ELSE z

-----------------------------------------------------------------------------
(* ComplexPlaneNP.refresh.  Every method returns the object it leaves      *)
(* behind and the exception it raised ("none" when it returned).           *)

Ret(self) == [self |-> self, exc |-> "none"]
Raise(self) == [self |-> self, exc |-> "TypeError"]

\* str(v): a label is the text of its number, different numbers give
\* different texts
Str(v) == [str |-> v]

\* the value stored for (xpos, ypos)
CellValue(self, xpos, ypos) ==
    Apply(self.f, Cx(xpos * self.xstep.v + self.xmin.v,
                     ypos * self.ystep.v + self.ymin.v))

\* planeArray after the two loops: the value for (xpos, ypos) is stored
\* at [ylen - ypos - 1, xpos]
PlaneArray(self) ==
    [r \in 0..(self.ylen - 1) |->
        [c \in 0..(self.xlen - 1) |-> CellValue(self, c, self.ylen - 1 - r)]]

DataFrame(self) ==
    [data    |-> PlaneArray(self),
     index   |-> [ypos \in 0..(self.ylen - 1) |->
                     Str(self.ymax.v - ypos * self.ystep.v)],
     columns |-> [xpos \in 0..(self.xlen - 1) |->
                     Str(xpos * self.xstep.v + self.xmin.v)]]

\* the loops raise on xmin or ymin that is a str and on f that is not
\* callable, the row labels on ymax that is a str; self.plane is assigned
\* last, so a raising refresh leaves the object as it was
refreshRaises(self) ==
    \/ ~IsNum(self.xmin)
    \/ ~IsNum(self.ymin)
    \/ ~Callable(self.f)
    \/ ~IsNum(self.ymax)

\* refresh as it would be if it kept a plane whose labels are still right
refresh_cached(self) ==
    IF refreshRaises(self)
    THEN Raise(self)
    ELSE IF /\ self.plane.index = DataFrame(self).index
            /\ self.plane.columns = DataFrame(self).columns
         THEN Ret(self)
         ELSE Ret([self EXCEPT !.plane = DataFrame(self)])

refresh(self) ==
    IF refreshRaises(self)
    THEN Raise(self)
    ELSE Ret([self EXCEPT !.plane = DataFrame(self)])

-----------------------------------------------------------------------------
(* ComplexPlaneNP.zoom, set_f and __init__                                 *)

zoom(self, newXmin, newXmax, newYmin, newYmax) ==
    LET s1 == [self EXCEPT !.xmin = newXmin, !.xmax = newXmax,
                           !.ymin = newYmin, !.ymax = newYmax]
        s2 == [s1 EXCEPT !.xstep = Div(Sub(s1.xmax, s1.xmin), s1.xlen - 1)]
        s3 == [s2 EXCEPT !.ystep = Div(Sub(s2.ymax, s2.ymin), s2.ylen - 1)]
    IN  IF ~CanSub(s1.xmax, s1.xmin) THEN Raise(s1)
        ELSE IF ~CanSub(s2.ymax, s2.ymin) THEN Raise(s2)
        ELSE refresh(s3)

set_f(self, f) == refresh([self EXCEPT !.f = f])

NoPlane == [data |-> <<>>, index |-> <<>>, columns |-> <<>>]

\* __init__: the object exists only when the constructor returns
ComplexPlaneNP(newXmin, newXmax, newYmin, newYmax, f) ==
    LET s0 == [xmin |-> newXmin, xmax |-> newXmax,
               ymin |-> newYmin, ymax |-> newYmax,
               xlen |-> XLen, ylen |-> YLen,
               xstep |-> Num(0), ystep |-> Num(0),
               f |-> f, plane |-> NoPlane]
        s1 == [s0 EXCEPT !.xstep = Div(Sub(s0.xmax, s0.xmin), s0.xlen - 1)]
        s2 == [s1 EXCEPT !.ystep = Div(Sub(s1.ymax, s1.ymin), s1.ylen - 1)]
    IN  IF ~CanSub(s0.xmax, s0.xmin) THEN Raise(s0)
        ELSE IF ~CanSub(s1.ymax, s1.ymin) THEN Raise(s1)
        ELSE refresh(s2)

\* itest_refresh1 overwrites tp.plane with a list of lists of -1-1j
Corrupted(self) ==
    [data    |-> [r \in 0..(self.xlen - 1) |->
                     [c \in 0..(self.ylen - 1) |-> Cx(-Unit, -Unit)]],
     index   |-> <<>>,
     columns |-> <<>>]

-----------------------------------------------------------------------------
(* julia(c, max) and the function f it returns.  Gaussian integers only:   *)
(* re and im are plain integers here.                                      *)

\* bounds of the inputs: c has re in -CMax..CMax and im in 0..CMax (the
\* conjugate constants behave alike), z has re, im in -ZMax..ZMax, max is in
\* 1..MaxIter
CMax == 1
ZMax == 2
MaxIter == 3

CArgs == {Cx(re, im) : re \in (-CMax)..CMax, im \in 0..CMax}
ZArgs == {Cx(re, im) : re \in (-ZMax)..ZMax, im \in (-ZMax)..ZMax}

\* abs(z) <= 2
AbsLe2(z) == z.re * z.re + z.im * z.im <= 4

\* z**2 + c
SqAdd(z, c) == Cx(z.re * z.re - z.im * z.im + c.re, 2 * z.re * z.im + c.im)

\* julia(c, max) binds c and max in a cell of its own and returns the
\* function that reads them: the cells so far, with the new one appended
\* julia as it would be if c and max lived in one place shared by every f
julia_shared(cells, c, max) ==
    [i \in 1..(Len(cells) + 1) |-> [c |-> c, max |-> max]]

julia(cells, c, max) == Append(cells, [c |-> c, max |-> max])

\* the while loop of f; out is what the print in the loop has written, one
\* entry per squaring
\* the loop as it would be if the cap were tested one iteration early
RECURSIVE loop_early(_, _, _, _)
loop_early(cell, z, n, out) ==
    IF AbsLe2(z)
    THEN LET z1   == SqAdd(z, cell.c)
             out1 == Append(out, [z |-> z1, n |-> n])
         IN  IF n >= cell.max - 1
             THEN [n |-> 1, out |-> out1]
             ELSE loop_early(cell, z1, n + 1, out1)
    ELSE [n |-> n, out |-> out]

\* the loop as it would be if the cap branch left n at 2, so that f
\* reported 1 at the cap
RECURSIVE loop_cap(_, _, _, _)
loop_cap(cell, z, n, out) ==
    IF AbsLe2(z)
    THEN LET z1   == SqAdd(z, cell.c)
             out1 == Append(out, [z |-> z1, n |-> n])
         IN  IF n >= cell.max
             THEN [n |-> 2, out |-> out1]
             ELSE loop_cap(cell, z1, n + 1, out1)
    ELSE [n |-> n, out |-> out]

RECURSIVE loop(_, _, _, _)
loop(cell, z, n, out) ==
    IF AbsLe2(z)
    THEN LET z1   == SqAdd(z, cell.c)
             out1 == Append(out, [z |-> z1, n |-> n])
         IN  IF n >= cell.max
             THEN [n |-> 1, out |-> out1]
             ELSE loop(cell, z1, n + 1, out1)
    ELSE [n |-> n, out |-> out]

\* f as it would be without the final n -= 1
julia_f_nodec(cell, z) ==
    IF AbsLe2(z)
    THEN LET r == loop(cell, z, 0, <<>>)
         IN  [n |-> r.n, out |-> r.out]
    ELSE [n |-> 1, out |-> <<>>]

\* f as it would be without the test of the input's magnitude
julia_f_nocheck(cell, z) ==
    LET r == loop(cell, z, 0, <<>>)
    IN  [n |-> r.n - 1, out |-> r.out]

\* julia.f: f(z), for the f whose c and max are in cell
julia_f(cell, z) ==
    IF AbsLe2(z)
    THEN LET r == loop(cell, z, 0, <<>>)
         IN  [n |-> r.n - 1, out |-> r.out]
    ELSE [n |-> 1, out |-> <<>>]

-----------------------------------------------------------------------------
(* The grid as a state machine: tp is the object, call the last call made  *)
(* on it, exc what that call raised, dirty whether the call found the      *)
(* plane overwritten.                                                      *)

VARIABLES tp, call, exc, dirty

gridVars == <<tp, call, exc, dirty>>

(* The functions made by julia, f1 and f2 as in test_julia_4: cells holds   *)
(* the cells of the functions made so far (function i reads cells[i]), zin *)
(* is the input the calls pass, ret the last call of a function and its    *)
(* result, expected the result of the first call of f1; made is the number *)
(* of functions that existed at the time of a call.                        *)

VARIABLES cells, zin, ret, expected

juliaVars == <<cells, zin, ret, expected>>

vars == <<tp, call, exc, dirty, cells, zin, ret, expected>>

NoRet == [fn |-> 0, made |-> 0, c |-> Cx(0, 0), max |-> 0, z |-> Cx(0, 0),
          n |-> 0, out |-> <<>>]

NoJulia ==
    /\ cells = <<>>
    /\ zin = Cx(0, 0)
    /\ ret = NoRet
    /\ expected = <<>>

Call(op, bounds, f) == [op |-> op, bounds |-> bounds, f |-> f]

Init ==
    \E a \in XminArgs, b \in XmaxArgs, c \in YminArgs, d \in YmaxArgs,
       f \in FArgs :
        LET r == ComplexPlaneNP(a, b, c, d, f)
        IN  /\ r.exc = "none"
            /\ tp = r.self
            /\ call = Call("init", <<a, b, c, d>>, f)
            /\ exc = "none"
            /\ dirty = FALSE
            /\ NoJulia

Refresh ==
    LET r == refresh(tp)
    IN  /\ tp' = r.self
        /\ exc' = r.exc
        /\ call' = Call("refresh", <<>>, "")
        /\ dirty' = (tp.plane = Corrupted(tp))
        /\ UNCHANGED juliaVars

Zoom ==
    \E a \in XminArgs, b \in XmaxArgs, c \in YminArgs, d \in YmaxArgs :
        LET r == zoom(tp, a, b, c, d)
        IN  /\ tp' = r.self
            /\ exc' = r.exc
            /\ call' = Call("zoom", <<a, b, c, d>>, "")
            /\ dirty' = FALSE
    /\ UNCHANGED juliaVars

SetF ==
    \E f \in FArgs :
        LET r == set_f(tp, f)
        IN  /\ tp' = r.self
            /\ exc' = r.exc
            /\ call' = Call("set_f", <<>>, f)
            /\ dirty' = FALSE
    /\ UNCHANGED juliaVars

Corrupt ==
    /\ tp' = [tp EXCEPT !.plane = Corrupted(tp)]
    /\ exc' = "none"
    /\ call' = Call("corrupt", <<>>, "")
    /\ dirty' = FALSE
    /\ UNCHANGED juliaVars

Next == Refresh \/ Zoom \/ SetF \/ Corrupt

Spec == Init /\ [][Next]_vars

-----------------------------------------------------------------------------
(* julia as a state machine: f1 and f2 are made and called in any order,    *)
(* the grid is the default grid and is left alone.                         *)

InitJulia ==
    /\ tp = ComplexPlaneNP(Num(-5), Num(5), Num(-5), Num(5), "identity").self
    /\ call = Call("init", <<Num(-5), Num(5), Num(-5), Num(5)>>, "identity")
    /\ exc = "none"
    /\ dirty = FALSE
    /\ cells = <<>>
    /\ zin \in ZArgs
    /\ ret = NoRet
    /\ expected = <<>>

\* f1 = julia(c, max), then f2 = julia(c, max)
Julia ==
    /\ Len(cells) < 2
    /\ \E c \in CArgs, max \in 1..MaxIter : cells' = julia(cells, c, max)
    /\ UNCHANGED <<zin, ret, expected>>
    /\ UNCHANGED gridVars

\* fi(zin)
CallF ==
    \E i \in 1..Len(cells) :
        LET r == julia_f(cells[i], zin)
        IN  /\ ret' = [fn |-> i, made |-> Len(cells),
                       c |-> cells[i].c, max |-> cells[i].max,
                       z |-> zin, n |-> r.n, out |-> r.out]
            /\ expected' = IF i = 1 /\ expected = <<>>
                           THEN <<r.n, Len(cells)>>
                           ELSE expected
            /\ UNCHANGED <<cells, zin>>
            /\ UNCHANGED gridVars

NextJulia == Julia \/ CallF

SpecJulia == InitJulia /\ [][NextJulia]_vars

-----------------------------------------------------------------------------
(* Properties of the grid, checked under Spec                              *)

AllNum(s) == IsNum(s.xmin) /\ IsNum(s.xmax) /\ IsNum(s.ymin) /\ IsNum(s.ymax)

SomeStr(bounds) == \E i \in DOMAIN bounds : ~IsNum(bounds[i])

\* C1: a zoom with an argument that is not a number raises TypeError and
\* leaves xmin, xmax, ymin, ymax and the plane as they were before the call
C1_ZoomAtomic ==
    [][(call'.op = "zoom" /\ SomeStr(call'.bounds)) =>
          /\ exc' = "TypeError"
          /\ tp'.xmin = tp.xmin /\ tp'.xmax = tp.xmax
          /\ tp'.ymin = tp.ymin /\ tp'.ymax = tp.ymax
          /\ tp'.plane = tp.plane]_vars

\* C2: a set_f with a value that is not callable raises TypeError and leaves
\* the stored f and the plane as they were before the call
C2_SetFAtomic ==
    [][(call'.op = "set_f" /\ ~Callable(call'.f)) =>
          /\ exc' = "TypeError"
          /\ tp'.f = tp.f
          /\ tp'.plane = tp.plane]_vars

\* a grid with these bounds and this f can be constructed
Constructible(s) == AllNum(s) /\ Callable(s.f)

FreshPlane(s) == ComplexPlaneNP(s.xmin, s.xmax, s.ymin, s.ymax, s.f).self.plane

\* C3: a refresh that returns leaves the plane of a freshly constructed grid
\* with the same bounds and f, whatever the plane held before, and a refresh
\* that follows a refresh leaves the plane as the first one left it
C3_RefreshRestores ==
    [][call'.op = "refresh" =>
          /\ (exc' = "none" /\ Constructible(tp')) =>
                 tp'.plane = FreshPlane(tp')
          /\ call.op = "refresh" => tp'.plane = tp.plane]_vars

\* C3 happens: a refresh has returned on an overwritten plane of a grid that
\* can be constructed, and the plane is no longer the overwritten one
C3_Witness ==
    /\ call.op = "refresh" /\ exc = "none" /\ dirty
    /\ Constructible(tp)
    /\ tp.plane # Corrupted(tp)
    /\ tp.plane = FreshPlane(tp)

\* C4: after the constructor and after every zoom or set_f that returned,
\* cells[row][col] = f((col*xstep + xmin) + (ymax - row*ystep)*1j) for every
\* row and col
C4_CellsAtCoordinates ==
    (call.op \in {"init", "zoom", "set_f"} /\ exc = "none") =>
        \A row \in 0..(tp.ylen - 1), col \in 0..(tp.xlen - 1) :
            tp.plane.data[row][col] =
                Apply(tp.f, Cx(col * tp.xstep.v + tp.xmin.v,
                               tp.ymax.v - row * tp.ystep.v))

\* C10: in every reachable state xstep = (xmax - xmin)/(xlen - 1) and
\* ystep = (ymax - ymin)/(ylen - 1), and xlen and ylen are the construction
\* values
C10_StepsConsistent ==
    /\ tp.xlen = XLen /\ tp.ylen = YLen
    /\ CanSub(tp.xmax, tp.xmin)
    /\ tp.xstep = Div(Sub(tp.xmax, tp.xmin), tp.xlen - 1)
    /\ CanSub(tp.ymax, tp.ymin)
    /\ tp.ystep = Div(Sub(tp.ymax, tp.ymin), tp.ylen - 1)

-----------------------------------------------------------------------------
(* Properties of julia, checked under SpecJulia                            *)

\* the number of squarings z <- z*z + c after which the magnitude first
\* exceeds 2, counting from k squarings done and looking at no more than
\* limit squarings in all; 0 when it does not exceed 2 within limit
RECURSIVE EscapeStep(_, _, _, _)
EscapeStep(c, z, k, limit) ==
    IF k >= limit THEN 0
    ELSE LET z1 == SqAdd(z, c)
         IN  IF AbsLe2(z1) THEN EscapeStep(c, z1, k + 1, limit) ELSE k + 1

FirstExceed(c, z0, limit) == EscapeStep(c, z0, 0, limit)

Called == ret.fn # 0

\* C5 as stated: when f returns 0 for an input of magnitude <= 2, the
\* magnitude did not exceed 2 within the first max squarings
C5_ZeroMeansNeverExceeded ==
    (Called /\ AbsLe2(ret.z) /\ ret.n = 0) =>
        FirstExceed(ret.c, ret.z, ret.max) = 0

\* C5 amended: when f returns 0 for an input of magnitude <= 2, the
\* magnitude either exceeded 2 after the very first squaring or did not
\* exceed 2 within the first max squarings
C5_ZeroMeansFirstOrNever ==
    (Called /\ AbsLe2(ret.z) /\ ret.n = 0) =>
        FirstExceed(ret.c, ret.z, ret.max) \in {0, 1}

\* C5 happens: f returned 0 although the first squaring exceeded 2
C5_Witness ==
    /\ Called /\ AbsLe2(ret.z) /\ ret.n = 0
    /\ FirstExceed(ret.c, ret.z, ret.max) = 1

\* C6 as stated: when f returns n > 0 for an input of magnitude <= 2, the
\* magnitude first exceeded 2 after exactly n squarings
C6_PositiveIsEscapeStep ==
    (Called /\ AbsLe2(ret.z) /\ ret.n > 0) =>
        FirstExceed(ret.c, ret.z, ret.max + 1) = ret.n

\* C6 amended: when f returns n > 0 for an input of magnitude <= 2, the
\* magnitude first exceeded 2 after exactly n + 1 squarings
C6_PositiveIsSquaringsBefore ==
    (Called /\ AbsLe2(ret.z) /\ ret.n > 0) =>
        FirstExceed(ret.c, ret.z, ret.max + 1) = ret.n + 1

\* C6 happens: f returned a positive count for an input of magnitude <= 2
C6_Witness ==
    /\ Called /\ AbsLe2(ret.z) /\ ret.n > 0
    /\ Len(ret.out) = ret.n + 1

\* C7: when the magnitude stays <= 2 after each of the first max squarings
\* of an input of magnitude <= 2, f returns 0
C7_CapReturnsZero ==
    (Called /\ AbsLe2(ret.z) /\ FirstExceed(ret.c, ret.z, ret.max) = 0) =>
        ret.n = 0

\* C7 happens: f ran into the cap and returned 0
C7_Witness ==
    /\ Called /\ AbsLe2(ret.z)
    /\ FirstExceed(ret.c, ret.z, ret.max) = 0
    /\ Len(ret.out) = ret.max + 1
    /\ ret.n = 0

\* C8: for an input of magnitude > 2, f returns 1 and does no squaring
C8_TooBigReturnsOne ==
    (Called /\ ~AbsLe2(ret.z)) => (ret.n = 1 /\ ret.out = <<>>)

\* C8 happens: f was called with an input of magnitude > 2
C8_Witness ==
    Called /\ ~AbsLe2(ret.z) /\ ret.n = 1

\* C9: every call of function 1 on the same input returns what its first
\* call returned, whatever functions were made or called in between, and
\* the call read the c and max function 1 was made with
C9_FunctionsIndependent ==
    (ret.fn = 1) => (expected # <<>> /\ ret.n = expected[1])

\* C9 happens: function 1 was first called when it was the only function,
\* and called again after a function with another c or max was made
C9_Witness ==
    /\ ret.fn = 1 /\ ret.made = 2
    /\ expected # <<>> /\ expected[2] = 1
    /\ cells[2] # cells[1]
    /\ ret.n = expected[1]

====
